---- MODULE Spec2Model ----
(***************************************************************************)
(* Pixel Sprite Generator: the Mask and Sprite classes of                  *)
(*   src/pixel-sprite-generator-v0.0.1.js  (revision "v1") and             *)
(*   src/example/resize.js                 (revision "v2", v0.0.2).        *)
(*                                                                         *)
(* One run of the model is one caller building a Mask and then a Sprite    *)
(* from it.  Sprite.prototype.init is followed call by call: pc names the  *)
(* call that finished last.  JavaScript numbers that are fractions (the    *)
(* render options, Math.random(), colour channels) are fixed-point         *)
(* integers in thousandths: One stands for 1.0.                            *)
(***************************************************************************)
EXTENDS Integers, Sequences, FiniteSets, TLC

VARIABLES
    rev,          \* which source revision runs: "v1" or "v2"
    pc,           \* the last call of the construction that has finished
    maskArgs,     \* the caller's arguments to new Mask(...), until used
    optionsArg,   \* the caller's options argument to new Sprite(...)
    mask,         \* the Mask object
    width,        \* Sprite.width
    height,       \* Sprite.height
    options,      \* Sprite.options (v2)
    data,         \* Sprite.data, index y * width + x
    canvas,       \* Sprite.canvas: its width, height and image
    pixels,       \* Sprite.pixels.data, 4 bytes per pixel
    locals,       \* renderPixelData's isVerticalGradient and saturation (v2)
    sampled,      \* history: Sprite.data as generateRandomSample returned it
    scale         \* the argument of the latest call of Sprite.resize (v2)

vars == <<rev, pc, maskArgs, optionsArg, mask, width, height, options, data,
          canvas, pixels, locals, sampled, scale>>

(***************************************************************************)
(* Bounds of the model.                                                    *)
(***************************************************************************)
\* the largest mask width and the largest mask height
MaxDim == 3
\* the largest number of cells of a grid given to generateEdges directly
MaxGridCells == 8
\* the largest scale given to Sprite.resize
MaxScale == 2
\* the largest number of cells of a mask (width * height)
MaxCells == 4
\* the largest sprite (width * height) rendered with every option record
MaxRenderPixels == 2
\* the longest data array given to Mask when its length is free
MaxDataLen == 2

(***************************************************************************)
(* JavaScript values.                                                      *)
(***************************************************************************)
\* 1.0 in thousandths
One == 1000

\* the value of an array hole, or of a read past the end of an array
undefined == -99

\* the results of Math.random() the model draws, in thousandths: [0, 1)
RandomValues == {0, 500, 999}

\* the authored cell codes
CellCodes == {-1, 0, 1, 2}

Min(a, b) == IF a < b THEN a ELSE b

\* TRUE, once the array a has been computed.  TLC evaluates the argument of
\* an operator only where it is used: a loop that handed its array straight
\* to its next iteration would return a tower of pending stores, so every
\* loop below asks for the array it has stored into before it goes on.
Stored(a) == a = a

Max(a, b) == IF a > b THEN a ELSE b

\* no own properties: {} (and what `options || {}` makes of undefined)
NoOptions == [p \in {} |-> 0]

(***************************************************************************)
(* Mask                                                                    *)
(***************************************************************************)
\* typeof arg !== 'undefined' ? arg : true, for an argument given as
\* "true", "false" or "undefined"
MirrorFlag(arg) == IF arg # "undefined" THEN arg = "true" ELSE TRUE

\* a constructor that checks data.length and the codes, and throws
MaskThrowsIfInvalid(a) ==
    \/ DOMAIN a.data # 0 .. a.width * a.height - 1
    \/ \E i \in DOMAIN a.data : a.data[i] \notin CellCodes

\* the constructor has no throw statement: no argument makes it fail
MaskThrows(a) == FALSE

Mask(a) ==
    [width   |-> a.width,
     height  |-> a.height,
     data    |-> a.data,
     mirrorX |-> MirrorFlag(a.mirrorX),
     mirrorY |-> MirrorFlag(a.mirrorY)]

\* mask.data[i]: undefined past the end of the array
MaskData(m, i) == IF i \in DOMAIN m.data THEN m.data[i] ELSE undefined

(***************************************************************************)
(* Sprite: the grid                                                        *)
(***************************************************************************)
getData(d, w, x, y) == d[y * w + x]

setData(d, w, x, y, value) == [d EXCEPT ![y * w + x] = value]

\* new Array(n): n holes
NewArray(n) == [i \in 0 .. n - 1 |-> undefined]

RECURSIVE initDataLoop(_, _, _, _)
initDataLoop(d, w, h, k) ==
    IF k >= w * h THEN d
    ELSE LET next == setData(d, w, k % w, k \div w, -1)
         IN  IF Stored(next) THEN initDataLoop(next, w, h, k + 1) ELSE next

initData(d, w, h) == initDataLoop(d, w, h, 0)

RECURSIVE applyMaskLoop(_, _, _, _)
applyMaskLoop(d, w, m, k) ==
    IF k >= m.width * m.height THEN d
    ELSE LET x == k % m.width
             y == k \div m.width
             next == setData(d, w, x, y, MaskData(m, y * m.width + x))
         IN  IF Stored(next) THEN applyMaskLoop(next, w, m, k + 1) ELSE next

applyMask(d, w, m) == applyMaskLoop(d, w, m, 0)

\* Math.round(Math.random()) for a draw r
Round(r) == IF 2 * r >= One THEN 1 ELSE 0

\* SampleCell with a plain `else` for the second branch: every code but 1
\* is drawn as border or body
SampleCellElse(val, r) ==
    IF val = 1 THEN val * Round(r)
    ELSE (IF 2 * r > One THEN 1 ELSE -1)

\* SampleCell that resolves code 2 only when the draw is not exactly 0.5
SampleCellKeeps2(val, r) ==
    IF val = 1 THEN val * Round(r)
    ELSE IF val = 2 THEN (IF 2 * r > One THEN 1 ELSE IF 2 * r < One THEN -1 ELSE 2)
    ELSE val

\* the value generateRandomSample stores for a cell holding val, given the
\* draw r it makes for that cell (it draws only for the codes 1 and 2)
SampleCell(val, r) ==
    IF val = 1 THEN val * Round(r)
    ELSE IF val = 2 THEN (IF 2 * r > One THEN 1 ELSE -1)
    ELSE val

\* the cells for which generateRandomSample calls Math.random()
DrawCells(d) == {i \in DOMAIN d : d[i] = 1 \/ d[i] = 2}

RECURSIVE generateRandomSampleLoop(_, _, _, _, _)
generateRandomSampleLoop(d, w, h, rnd, k) ==
    IF k >= w * h THEN d
    ELSE LET x   == k % w
             y   == k \div w
             val == getData(d, w, x, y)
             r   == IF k \in DOMAIN rnd THEN rnd[k] ELSE 0
             next == setData(d, w, x, y, SampleCell(val, r))
         IN  IF Stored(next)
             THEN generateRandomSampleLoop(next, w, h, rnd, k + 1)
             ELSE next

\* generateRandomSample with one Math.random() call hoisted out of its
\* loops: every cell is resolved from the draw of the first one
generateRandomSampleOneDraw(d, w, h, rnd) ==
    LET first == CHOOSE j \in DOMAIN rnd : \A k \in DOMAIN rnd : j <= k
    IN  generateRandomSampleLoop(d, w, h, [k \in DOMAIN rnd |-> rnd[first]], 0)

\* rnd: the draw made for each cell of DrawCells(d)
generateRandomSample(d, w, h, rnd) == generateRandomSampleLoop(d, w, h, rnd, 0)

\* mirrorX with the destination column w/2 + x: a copy, not a reflection
RECURSIVE mirrorXCopyLoop(_, _, _, _)
mirrorXCopyLoop(d, w, h, k) ==
    IF k >= h * (w \div 2) THEN d
    ELSE LET x == k % (w \div 2)
             y == k \div (w \div 2)
             next == setData(d, w, (w \div 2) + x, y, getData(d, w, x, y))
         IN  IF Stored(next) THEN mirrorXCopyLoop(next, w, h, k + 1) ELSE next

mirrorXCopy(d, w, h) == mirrorXCopyLoop(d, w, h, 0)

RECURSIVE mirrorXLoop(_, _, _, _)
mirrorXLoop(d, w, h, k) ==
    IF k >= h * (w \div 2) THEN d
    ELSE LET x == k % (w \div 2)
             y == k \div (w \div 2)
             next == setData(d, w, w - x - 1, y, getData(d, w, x, y))
         IN  IF Stored(next) THEN mirrorXLoop(next, w, h, k + 1) ELSE next

mirrorX(d, w, h) == mirrorXLoop(d, w, h, 0)

\* mirrorY with the destination row h/2 + y: a copy, not a reflection
RECURSIVE mirrorYCopyLoop(_, _, _, _)
mirrorYCopyLoop(d, w, h, k) ==
    IF k >= (h \div 2) * w THEN d
    ELSE LET x == k % w
             y == k \div w
             next == setData(d, w, x, (h \div 2) + y, getData(d, w, x, y))
         IN  IF Stored(next) THEN mirrorYCopyLoop(next, w, h, k + 1) ELSE next

mirrorYCopy(d, w, h) == mirrorYCopyLoop(d, w, h, 0)

RECURSIVE mirrorYLoop(_, _, _, _)
mirrorYLoop(d, w, h, k) ==
    IF k >= (h \div 2) * w THEN d
    ELSE LET x == k % w
             y == k \div w
             next == setData(d, w, x, h - y - 1, getData(d, w, x, y))
         IN  IF Stored(next) THEN mirrorYLoop(next, w, h, k + 1) ELSE next

mirrorY(d, w, h) == mirrorYLoop(d, w, h, 0)

\* the test `if (this.getData(x, y))` in place of `> 0`: a border counts too
IsTruthy(val) == val # undefined /\ val # 0

\* val > 0 and val === 0 on a cell value (undefined > 0 is false)
IsPositive(val) == val # undefined /\ val > 0

\* EdgesAt without the test of the left neighbour (x - 1, y)
EdgesAtNoLeft(d, w, h, x, y) ==
    IF ~IsPositive(getData(d, w, x, y)) THEN d
    ELSE LET d1 == IF y - 1 >= 0 /\ getData(d, w, x, y - 1) = 0
                   THEN setData(d, w, x, y - 1, -1) ELSE d
             d2 == IF y + 1 < h /\ getData(d1, w, x, y + 1) = 0
                   THEN setData(d1, w, x, y + 1, -1) ELSE d1
             d4 == IF x + 1 < w /\ getData(d2, w, x + 1, y) = 0
                   THEN setData(d2, w, x + 1, y, -1) ELSE d2
         IN  d4

\* one iteration of generateEdges' inner loop, at (x, y)
EdgesAt(d, w, h, x, y) ==
    IF ~IsPositive(getData(d, w, x, y)) THEN d
    ELSE LET d1 == IF y - 1 >= 0 /\ getData(d, w, x, y - 1) = 0
                   THEN setData(d, w, x, y - 1, -1) ELSE d
             d2 == IF y + 1 < h /\ getData(d1, w, x, y + 1) = 0
                   THEN setData(d1, w, x, y + 1, -1) ELSE d1
             d3 == IF x - 1 >= 0 /\ getData(d2, w, x - 1, y) = 0
                   THEN setData(d2, w, x - 1, y, -1) ELSE d2
             d4 == IF x + 1 < w /\ getData(d3, w, x + 1, y) = 0
                   THEN setData(d3, w, x + 1, y, -1) ELSE d3
         IN  d4

RECURSIVE generateEdgesLoop(_, _, _, _)
generateEdgesLoop(d, w, h, k) ==
    IF k >= w * h THEN d
    ELSE LET next == EdgesAt(d, w, h, k % w, k \div w)
         IN  IF Stored(next) THEN generateEdgesLoop(next, w, h, k + 1) ELSE next

generateEdges(d, w, h) == generateEdgesLoop(d, w, h, 0)

(***************************************************************************)
(* Sprite: construction, canvas                                            *)
(***************************************************************************)
\* mask.width * (mask.mirrorX ? 2 : 1)
SpriteWidth(m) == m.width * (IF m.mirrorX THEN 2 ELSE 1)

\* mask.height * (mask.mirrorY ? 2 : 1)
SpriteHeight(m) == m.height * (IF m.mirrorY THEN 2 ELSE 1)

defaults ==
    [colored         |-> TRUE,
     edgeBrightness  |-> 300,
     colorVariations |-> 200,
     brightnessNoise |-> 300,
     saturation      |-> 500]

\* the "Set default options" loop: o is the options argument, holding the
\* properties the caller supplied
SpriteOptions(o) ==
    [prop \in DOMAIN defaults |->
        IF prop \in DOMAIN o THEN o[prop] ELSE defaults[prop]]

\* ctx.createImageData(w, h): transparent black
createImageData(w, h) == [i \in 0 .. 4 * w * h - 1 |-> 0]

\* document.createElement('canvas') with width and height set: a blank image
initCanvas(w, h) == [width |-> w, height |-> h, image |-> createImageData(w, h)]

\* ctx.putImageData(px, 0, 0) on a canvas of the size of px
putImageData(c, px) == [c EXCEPT !.image = px]

(***************************************************************************)
(* Sprite: rendering                                                       *)
(***************************************************************************)
\* a * b on thousandths
Mul(a, b) == (a * b) \div One

\* storing c * 255 into a Uint8ClampedArray: rounded to the nearest integer,
\* ties to even, clamped to 0 .. 255
ToUint8Clamped(c) ==
    LET n == c * 255
        q == n \div One
        r == n % One
        rounded == IF 2 * r > One \/ (2 * r = One /\ q % 2 = 1) THEN q + 1 ELSE q
    IN  Max(0, Min(255, rounded))

\* the four stores pixels.data[index + 0 .. 3] = rgba.* * 255
WritePixel(px, index, rgba) ==
    [px EXCEPT ![index]     = ToUint8Clamped(rgba.r),
               ![index + 1] = ToUint8Clamped(rgba.g),
               ![index + 2] = ToUint8Clamped(rgba.b),
               ![index + 3] = ToUint8Clamped(rgba.a)]

\* v1: a = 1 and r = g = b = (val === -1 ? 0 : 1)
RGBAv1(val) ==
    LET c == IF val = -1 THEN 0 ELSE One
    IN  [r |-> c, g |-> c, b |-> c, a |-> One]

RECURSIVE renderPixelDataV1Loop(_, _, _, _, _)
renderPixelDataV1Loop(px, d, w, h, k) ==
    IF k >= w * h THEN px
    ELSE LET x == k % w
             y == k \div w
             next == WritePixel(px, (y * w + x) * 4, RGBAv1(getData(d, w, x, y)))
         IN  IF Stored(next)
             THEN renderPixelDataV1Loop(next, d, w, h, k + 1)
             ELSE next

renderPixelDataV1(px, d, w, h) == renderPixelDataV1Loop(px, d, w, h, 0)

\* Math.sin((u / ulen) * Math.PI) in thousandths, by Bhaskara's rational
\* approximation 16 x (1 - x) / (5 - 4 x (1 - x)) of sin(pi x)
SinPi(u, ulen) ==
    (16 * One * u * (ulen - u)) \div (5 * ulen * ulen - 4 * u * (ulen - u))

hslToRgb(h, s, l) ==
    LET i == (h * 6) \div One
        f == h * 6 - i * One
        p == Mul(l, One - s)
        q == Mul(l, One - Mul(f, s))
        t == Mul(l, One - Mul(One - f, s))
    IN  CASE i % 6 = 0 -> [r |-> l, g |-> t, b |-> p]
          [] i % 6 = 1 -> [r |-> q, g |-> l, b |-> p]
          [] i % 6 = 2 -> [r |-> p, g |-> l, b |-> t]
          [] i % 6 = 3 -> [r |-> p, g |-> q, b |-> l]
          [] i % 6 = 4 -> [r |-> t, g |-> p, b |-> l]
          [] i % 6 = 5 -> [r |-> l, g |-> p, b |-> q]

\* Math.random() > 0.5
IsVerticalGradient(r) == 2 * r > One

\* Saturation without the Math.max / Math.min around the product
SaturationUnclamped(r, opts) == Mul(r, opts.saturation)

\* Math.max(Math.min(Math.random() * options.saturation, 1), 0)
Saturation(r, opts) == Max(Min(Mul(r, opts.saturation), One), 0)

\* Math.abs(((r1 * 2 - 1) + (r2 * 2 - 1) + (r3 * 2 - 1)) / 3)
IsNewColor(r1, r2, r3) ==
    LET sum == (r1 * 2 - One) + (r2 * 2 - One) + (r3 * 2 - One)
    IN  (IF sum < 0 THEN -sum ELSE sum) \div 3

\* the values isNewColor may take
IsNewColorValues ==
    { IsNewColor(t[1], t[2], t[3]) : t \in RandomValues \X RandomValues \X RandomValues }

\* the hues the body of the u loop may go on with: the current one when
\* isNewColor leaves it, any drawn one when it calls for a new colour
NextHues(hue, opts) ==
    UNION { IF isNewColor > One - opts.colorVariations
            THEN RandomValues
            ELSE {hue} : isNewColor \in IsNewColorValues }

\* RGBA with `val > 0` for `val !== 0`: a border is left transparent
RGBABorderTransparent(val, opts, hue, saturation, u, ulen, r) ==
    IF val > 0 THEN
        IF opts.colored THEN
            LET brightness == Mul(SinPi(u, ulen), One - opts.brightnessNoise)
                              + Mul(r, opts.brightnessNoise)
                c == hslToRgb(hue, saturation, brightness)
            IN  [r |-> c.r, g |-> c.g, b |-> c.b, a |-> One]
        ELSE [r |-> One, g |-> One, b |-> One, a |-> One]
    ELSE [r |-> One, g |-> One, b |-> One, a |-> 0]

\* RGBA that darkens a border by edgeBrightness in monochrome mode too
RGBAMonochromeDarkened(val, opts, hue, saturation, u, ulen, r) ==
    IF val # 0 THEN
        LET c == IF opts.colored
                 THEN hslToRgb(hue, saturation,
                               Mul(SinPi(u, ulen), One - opts.brightnessNoise)
                               + Mul(r, opts.brightnessNoise))
                 ELSE [r |-> One, g |-> One, b |-> One]
        IN  IF val = -1
            THEN [r |-> Mul(c.r, opts.edgeBrightness),
                  g |-> Mul(c.g, opts.edgeBrightness),
                  b |-> Mul(c.b, opts.edgeBrightness),
                  a |-> One]
            ELSE [r |-> c.r, g |-> c.g, b |-> c.b, a |-> One]
    ELSE [r |-> One, g |-> One, b |-> One, a |-> 0]

\* the rgba object of one pixel; r is the draw of the brightness noise
\* (made only for a coloured, non-empty cell)
RGBA(val, opts, hue, saturation, u, ulen, r) ==
    IF val # 0 THEN
        IF opts.colored THEN
            LET brightness == Mul(SinPi(u, ulen), One - opts.brightnessNoise)
                              + Mul(r, opts.brightnessNoise)
                c == hslToRgb(hue, saturation, brightness)
            IN  IF val = -1
                THEN [r |-> Mul(c.r, opts.edgeBrightness),
                      g |-> Mul(c.g, opts.edgeBrightness),
                      b |-> Mul(c.b, opts.edgeBrightness),
                      a |-> One]
                ELSE [r |-> c.r, g |-> c.g, b |-> c.b, a |-> One]
        ELSE
            IF val = -1
            THEN [r |-> 0, g |-> 0, b |-> 0, a |-> One]
            ELSE [r |-> One, g |-> One, b |-> One, a |-> One]
    ELSE [r |-> One, g |-> One, b |-> One, a |-> 0]

\* the draws Math.random() may return where RGBA uses one
NoiseDraws(val, opts) ==
    IF val # 0 /\ opts.colored THEN RandomValues ELSE {0}

\* the cell read, and the index written, for (u, v)
RenderVal(d, w, isVertical, u, v) ==
    IF isVertical THEN getData(d, w, v, u) ELSE getData(d, w, u, v)

RenderIndex(isVertical, u, v, ulen, vlen) ==
    IF isVertical THEN (u * vlen + v) * 4 ELSE (v * ulen + u) * 4

\* the v loop for one u: every pixel buffer it may leave
RECURSIVE RenderRow(_, _, _, _, _, _, _, _, _)
RenderRow(px, d, w, h, opts, loc, hue, u, v) ==
    LET ulen == IF loc.isVerticalGradient THEN h ELSE w
        vlen == IF loc.isVerticalGradient THEN w ELSE h
    IN  IF v >= vlen THEN {px}
        ELSE LET val   == RenderVal(d, w, loc.isVerticalGradient, u, v)
                 index == RenderIndex(loc.isVerticalGradient, u, v, ulen, vlen)
             IN  UNION { RenderRow(
                             WritePixel(px, index,
                                 RGBA(val, opts, hue, loc.saturation, u, ulen, r)),
                             d, w, h, opts, loc, hue, u, v + 1)
                         : r \in NoiseDraws(val, opts) }

\* the hue after the first statements of the body of the u loop, for each
\* <<hue, pixel buffer>> of S
RenderHues(S, opts) ==
    UNION { { <<hue, s[2]>> : hue \in NextHues(s[1], opts) } : s \in S }

\* the u loop from u on: S is the set of <<hue, pixel buffer>> it may have
\* reached before iteration u
RECURSIVE RenderLoop(_, _, _, _, _, _, _)
RenderLoop(S, d, w, h, opts, loc, u) ==
    IF u >= (IF loc.isVerticalGradient THEN h ELSE w) THEN {s[2] : s \in S}
    ELSE RenderLoop(
             UNION { { <<s[1], px>> :
                       px \in RenderRow(s[2], d, w, h, opts, loc, s[1], u, 0) }
                     : s \in RenderHues(S, opts) },
             d, w, h, opts, loc, u + 1)

\* v2: what renderPixelData may leave, as [pixels, locals]
renderPixelData(px, d, w, h, opts) ==
    UNION { { [pixels |-> p, locals |-> loc] :
              p \in RenderLoop({ <<hue, px>> : hue \in RandomValues },
                               d, w, h, opts, loc, 0) }
            : loc \in { [isVerticalGradient |-> IsVerticalGradient(r1),
                         saturation         |-> Saturation(r2, opts)]
                        : r1 \in RandomValues, r2 \in RandomValues } }

(***************************************************************************)
(* The caller's inputs.                                                    *)
(***************************************************************************)
\* a mirror argument as the caller passes it
MirrorArgs == {"undefined", "true", "false"}

\* the arguments of new Mask(data, width, height, mirrorX, mirrorY) with
\* width x height cells and the data array drawn from Arrays
MaskArgsOf(w, h, Arrays) ==
    [width : {w}, height : {h}, data : Arrays,
     mirrorX : MirrorArgs, mirrorY : MirrorArgs]

\* the mask shapes within the bounds
Shapes ==
    {s \in (1 .. MaxDim) \X (1 .. MaxDim) : s[1] * s[2] <= MaxCells}

\* every Mask of the data model: data.length = width * height, codes in
\* {-1, 0, 1, 2}
ValidMaskArgs ==
    UNION { MaskArgsOf(s[1], s[2], [0 .. s[1] * s[2] - 1 -> CellCodes])
            : s \in Shapes }

\* the valid Masks whose sprite has at most MaxRenderPixels cells
RenderMaskArgs ==
    {a \in ValidMaskArgs :
        SpriteWidth(Mask(a)) * SpriteHeight(Mask(a)) <= MaxRenderPixels}

\* the options arguments of the model: none, monochrome, every number
\* below 0, every number above 1, in-range numbers that are not the
\* defaults, and single out-of-range numbers
OptionArgs ==
    { NoOptions,
      [colored |-> FALSE],
      [colored |-> FALSE, edgeBrightness |-> 2000, colorVariations |-> -1000,
       brightnessNoise |-> 2000, saturation |-> -1000],
      [edgeBrightness |-> -500, colorVariations |-> -500,
       brightnessNoise |-> -500, saturation |-> -500],
      [edgeBrightness |-> 1500, colorVariations |-> 1500,
       brightnessNoise |-> 1500, saturation |-> 1500],
      [colored |-> TRUE, edgeBrightness |-> 1000, colorVariations |-> 0,
       brightnessNoise |-> 0, saturation |-> 1000],
      [saturation |-> 2000],
      [edgeBrightness |-> 2000] }

\* the codes a data array may hold when nothing is assumed of it: the four
\* of the data model and one outside it
AnyCodes == CellCodes \cup {3}

\* data arrays of every length up to MaxDataLen
AnyArrays == UNION { [0 .. n - 1 -> AnyCodes] : n \in 0 .. MaxDataLen }

\* arguments of new Mask(...) with no relation between data and width, height
AnyMaskArgs == UNION { MaskArgsOf(s[1], s[2], AnyArrays) : s \in Shapes }

(***************************************************************************)
(* The steps of `new Mask(...)` and `new Sprite(mask, options)`.           *)
(***************************************************************************)
NewMask ==
    /\ pc = "start"
    /\ IF MaskThrows(maskArgs)
       THEN pc' = "InvalidMaskError" /\ UNCHANGED mask
       ELSE pc' = "Mask" /\ mask' = Mask(maskArgs)
    /\ maskArgs' = "used"
    /\ UNCHANGED <<rev, optionsArg, width, height, options, data, canvas,
                   pixels, locals>>
    /\ UNCHANGED <<sampled, scale>>

\* the constructor's body up to its call of this.init()
NewSprite ==
    /\ pc = "Mask"
    /\ width' = SpriteWidth(mask)
    /\ height' = SpriteHeight(mask)
    /\ data' = NewArray(SpriteWidth(mask) * SpriteHeight(mask))
    /\ options' = IF rev = "v2" THEN SpriteOptions(optionsArg) ELSE NoOptions
    /\ pc' = "Sprite"
    /\ UNCHANGED <<rev, maskArgs, optionsArg, mask, canvas, pixels, locals>>
    /\ UNCHANGED <<sampled, scale>>

CallInitCanvas ==
    /\ pc = "Sprite"
    /\ canvas' = initCanvas(width, height)
    /\ pc' = "initCanvas"
    /\ UNCHANGED <<rev, maskArgs, optionsArg, mask, width, height, options,
                   data, pixels, locals>>
    /\ UNCHANGED <<sampled, scale>>

CallInitContext ==
    /\ pc = "initCanvas"
    /\ pixels' = createImageData(width, height)
    /\ pc' = "initContext"
    /\ UNCHANGED <<rev, maskArgs, optionsArg, mask, width, height, options,
                   data, canvas, locals>>
    /\ UNCHANGED <<sampled, scale>>

CallInitData ==
    /\ pc = "initContext"
    /\ data' = initData(data, width, height)
    /\ pc' = "initData"
    /\ UNCHANGED <<rev, maskArgs, optionsArg, mask, width, height, options,
                   canvas, pixels, locals>>
    /\ UNCHANGED <<sampled, scale>>

CallApplyMask ==
    /\ pc = "initData"
    /\ data' = applyMask(data, width, mask)
    /\ pc' = "applyMask"
    /\ UNCHANGED <<rev, maskArgs, optionsArg, mask, width, height, options,
                   canvas, pixels, locals>>
    /\ UNCHANGED <<sampled, scale>>

CallGenerateRandomSample ==
    /\ pc = "applyMask"
    /\ \E rnd \in [DrawCells(data) -> RandomValues] :
           data' = generateRandomSample(data, width, height, rnd)
    /\ pc' = "generateRandomSample"
    /\ UNCHANGED <<rev, maskArgs, optionsArg, mask, width, height, options,
                   canvas, pixels, locals>>
    /\ sampled' = data'
    /\ UNCHANGED scale

\* if (this.mask.mirrorX) { this.mirrorX(); }
IfMirrorX ==
    /\ pc = "generateRandomSample"
    /\ data' = IF mask.mirrorX THEN mirrorX(data, width, height) ELSE data
    /\ pc' = "ifMirrorX"
    /\ UNCHANGED <<rev, maskArgs, optionsArg, mask, width, height, options,
                   canvas, pixels, locals>>
    /\ UNCHANGED <<sampled, scale>>

\* v2: if (this.mask.mirrorY) { this.mirrorY(); }
\* v1: if (this.mask.mirrorY) { this.mirrorX(); }
IfMirrorY ==
    /\ pc = "ifMirrorX"
    /\ data' = IF mask.mirrorY
               THEN IF rev = "v1" THEN mirrorX(data, width, height)
                                  ELSE mirrorY(data, width, height)
               ELSE data
    /\ pc' = "ifMirrorY"
    /\ UNCHANGED <<rev, maskArgs, optionsArg, mask, width, height, options,
                   canvas, pixels, locals>>
    /\ UNCHANGED <<sampled, scale>>

\* init with this.generateEdges() moved up, ahead of the two mirror tests
CallGenerateEdgesBeforeMirror ==
    /\ pc = "generateRandomSample"
    /\ data' = generateEdges(data, width, height)
    /\ pc' = "generateEdges"
    /\ UNCHANGED <<rev, maskArgs, optionsArg, mask, width, height, options,
                   canvas, pixels, locals>>
    /\ UNCHANGED <<sampled, scale>>

CallGenerateEdges ==
    /\ pc = "ifMirrorY"
    /\ data' = generateEdges(data, width, height)
    /\ pc' = "generateEdges"
    /\ UNCHANGED <<rev, maskArgs, optionsArg, mask, width, height, options,
                   canvas, pixels, locals>>
    /\ UNCHANGED <<sampled, scale>>

\* renderPixelData, with its closing ctx.putImageData(this.pixels, 0, 0)
CallRenderPixelData ==
    /\ pc = "generateEdges"
    /\ IF rev = "v1"
       THEN /\ pixels' = renderPixelDataV1(pixels, data, width, height)
            /\ UNCHANGED locals
       ELSE \E o \in renderPixelData(pixels, data, width, height, options) :
                /\ pixels' = o.pixels
                /\ locals' = o.locals
    /\ canvas' = putImageData(canvas, pixels')
    /\ pc' = "renderPixelData"
    /\ UNCHANGED <<rev, maskArgs, optionsArg, mask, width, height, options,
                   data>>
    /\ UNCHANGED <<sampled, scale>>

Next ==
    \/ NewMask
    \/ NewSprite
    \/ CallInitCanvas
    \/ CallInitContext
    \/ CallInitData
    \/ CallApplyMask
    \/ CallGenerateRandomSample
    \/ IfMirrorX
    \/ IfMirrorY
    \/ CallGenerateEdges
    \/ CallRenderPixelData

\* before anything is constructed
Blank ==
    /\ pc = "start"
    /\ mask = "unset"
    /\ width = 0
    /\ height = 0
    /\ options = NoOptions
    /\ data = <<>>
    /\ canvas = "unset"
    /\ pixels = <<>>
    /\ locals = "unset"
    /\ sampled = <<>>
    /\ scale = 0

(***************************************************************************)
(* Spec: both revisions, every valid Mask within the bounds, rendered in   *)
(* monochrome (v2: options = {colored: false}).                            *)
(***************************************************************************)
Init ==
    /\ rev \in {"v1", "v2"}
    /\ maskArgs \in ValidMaskArgs
    /\ optionsArg = IF rev = "v2" THEN [colored |-> FALSE] ELSE NoOptions
    /\ Blank

Spec == Init /\ [][Next]_vars

(***************************************************************************)
(* The finished grid.                                                      *)
(***************************************************************************)
\* generateEdges has returned: the grid is finished
Finished == pc \in {"generateEdges", "renderPixelData"}

Columns == 0 .. width - 1

Rows == 0 .. height - 1

\* the cell (x, y) of the finished grid
Cell(x, y) == getData(data, width, x, y)

\* the code the mask holds for the cell (x, y) of its quadrant
MaskCode(x, y) == mask.data[y * mask.width + x]

\* C1: for a Mask with mirrorX = true, in both revisions, the finished
\* grid equals its own reflection in x: cell (x, y) = cell (width-1-x, y).
C1_MirrorXSymmetric ==
    (Finished /\ mask.mirrorX) =>
        \A x \in Columns, y \in Rows : Cell(x, y) = Cell(width - 1 - x, y)

\* a finished x-mirrored grid of revision v1 whose first row is not constant
C1_Witness ==
    /\ Finished
    /\ rev = "v1"
    /\ mask.mirrorX
    /\ mask.mirrorY
    /\ width = 4
    /\ Cell(0, 0) # Cell(1, 0)
    /\ Cell(1, 0) = Cell(2, 0)

\* C2: in v0.0.2, for a Mask with mirrorY = true the finished grid equals
\* its own reflection in y: cell (x, y) = cell (x, height-1-y).
C2_MirrorYSymmetricV2 ==
    (Finished /\ rev = "v2" /\ mask.mirrorY) =>
        \A x \in Columns, y \in Rows : Cell(x, y) = Cell(x, height - 1 - y)

\* a finished y-mirrored grid of v0.0.2 whose first column is not constant
C2_Witness ==
    /\ Finished
    /\ rev = "v2"
    /\ mask.mirrorY
    /\ height = 4
    /\ Cell(0, 0) # Cell(0, 1)
    /\ Cell(0, 1) = Cell(0, 2)

\* C3: in v0.0.1, for a Mask with mirrorY = true the finished grid equals
\* its own reflection in y: cell (x, y) = cell (x, height-1-y).
C3_MirrorYSymmetricV1 ==
    (Finished /\ rev = "v1" /\ mask.mirrorY) =>
        \A x \in Columns, y \in Rows : Cell(x, y) = Cell(x, height - 1 - y)

\* C4: in a finished grid no body cell (1) has an in-bounds orthogonal
\* neighbour that is empty (0).
C4_NoBodyNextToEmpty ==
    Finished =>
        \A x \in Columns, y \in Rows :
            Cell(x, y) = 1 =>
                /\ (y - 1 >= 0     => Cell(x, y - 1) # 0)
                /\ (y + 1 < height => Cell(x, y + 1) # 0)
                /\ (x - 1 >= 0     => Cell(x - 1, y) # 0)
                /\ (x + 1 < width  => Cell(x + 1, y) # 0)

\* a finished grid with a body cell whose left neighbour, authored as
\* always empty (0), was turned into a border by generateEdges
C4_Witness ==
    /\ Finished
    /\ \E x \in 1 .. mask.width - 1, y \in 0 .. mask.height - 1 :
           /\ Cell(x, y) = 1
           /\ MaskCode(x - 1, y) = 0
           /\ Cell(x - 1, y) = -1

\* the mask holds no code that is drawn at random
NoStochasticCode == \A i \in DOMAIN mask.data : mask.data[i] \in {-1, 0}

\* the grid init builds when generateRandomSample is left out
UnsampledGrid ==
    LET d0 == applyMask(initData(NewArray(width * height), width, height),
                        width, mask)
        d1 == IF mask.mirrorX THEN mirrorX(d0, width, height) ELSE d0
        d2 == IF mask.mirrorY
              THEN IF rev = "v1" THEN mirrorX(d1, width, height)
                                 ELSE mirrorY(d1, width, height)
              ELSE d1
    IN  generateEdges(d2, width, height)

\* C7: for a Mask whose cells are all -1 or 0 the finished grid is a
\* function of the Mask alone: it is the grid that the phases other than
\* the random sampling build from it, whatever the random source returns.
C7_DeterministicWithoutStochasticCodes ==
    (Finished /\ NoStochasticCode) => data = UnsampledGrid

\* a finished, mirrored grid of a Mask that holds both -1 and 0 and no 1, 2
C7_Witness ==
    /\ Finished
    /\ NoStochasticCode
    /\ mask.mirrorX
    /\ mask.width = 2
    /\ MaskCode(0, 0) = 0
    /\ MaskCode(1, 0) = -1
    /\ Cell(0, 0) = 0

\* C10: every cell of the finished grid holds -1, 0 or 1: none is left
\* undefined and no code 2 survives.
C10_AllCellsResolved ==
    Finished =>
        /\ DOMAIN data = 0 .. width * height - 1
        /\ \A i \in DOMAIN data : data[i] \in {-1, 0, 1}

\* a finished grid, mirrored both ways, of a Mask that holds a code 2
C10_Witness ==
    /\ Finished
    /\ mask.mirrorX
    /\ mask.mirrorY
    /\ \E i \in DOMAIN mask.data : mask.data[i] = 2
    /\ \E i \in DOMAIN mask.data : mask.data[i] = 1

(***************************************************************************)
(* SpecRender: v0.0.2, the valid Masks of small sprites, rendered with     *)
(* every options argument of OptionArgs.                                   *)
(***************************************************************************)
InitRender ==
    /\ rev = "v2"
    /\ maskArgs \in RenderMaskArgs
    /\ optionsArg \in OptionArgs
    /\ Blank

SpecRender == InitRender /\ [][Next]_vars

(***************************************************************************)
(* SpecMask: both revisions, Mask built from any data array.               *)
(***************************************************************************)
InitMask ==
    /\ rev \in {"v1", "v2"}
    /\ maskArgs \in AnyMaskArgs
    /\ optionsArg = IF rev = "v2" THEN [colored |-> FALSE] ELSE NoOptions
    /\ Blank

SpecMask == InitMask /\ [][Next]_vars

(***************************************************************************)
(* The pixel buffer.                                                       *)
(***************************************************************************)
Rendered == pc = "renderPixelData"

\* the byte of channel c (0 red, 1 green, 2 blue, 3 alpha) of the
\* row-major pixel (x, y)
Channel(x, y, c) == pixels[(y * width + x) * 4 + c]

C6_MonochromeBlackOrWhite ==
    (Rendered /\ rev = "v2" /\ ~options.colored) =>
        \A x \in Columns, y \in Rows :
            Channel(x, y, 3) # 0 =>
                LET rgb == <<Channel(x, y, 0), Channel(x, y, 1), Channel(x, y, 2)>>
                IN  /\ Cell(x, y) = -1 => rgb = <<0, 0, 0>>
                    /\ Cell(x, y) = 1  => rgb = <<255, 255, 255>>
                    /\ rgb \in {<<0, 0, 0>>, <<255, 255, 255>>}

\* a monochrome sprite rendered with a vertical gradient whose grid holds
\* border, body and empty cells
C6_Witness ==
    /\ Rendered
    /\ rev = "v2"
    /\ ~options.colored
    /\ locals.isVerticalGradient
    /\ \E x \in Columns, y \in Rows : Cell(x, y) = -1
    /\ \E x \in Columns, y \in Rows : Cell(x, y) = 1
    /\ \E x \in Columns, y \in Rows : Cell(x, y) = 0

(***************************************************************************)
(* Mask construction.                                                      *)
(***************************************************************************)
\* the data model's invariant of a Mask object
ValidMask(m) ==
    /\ DOMAIN m.data = 0 .. m.width * m.height - 1
    /\ \A i \in DOMAIN m.data : m.data[i] \in CellCodes

NumericOptions ==
    {"edgeBrightness", "colorVariations", "brightnessNoise", "saturation"}

\* the Sprite object exists
Constructed == pc \notin {"start", "Mask", "InvalidMaskError"}

\* the documented defaults
DocumentedDefault(prop) ==
    CASE prop = "colored"         -> TRUE
      [] prop = "edgeBrightness"  -> 300
      [] prop = "colorVariations" -> 200
      [] prop = "brightnessNoise" -> 300
      [] prop = "saturation"      -> 500

GridShapes ==
    {s \in (1 .. MaxDim) \X (1 .. MaxDim) : s[1] * s[2] <= MaxGridCells}

\* the values a cell holds once generateRandomSample has run
SampledCodes == {-1, 0, 1}

\* a second call of sprite.generateEdges()
CallGenerateEdgesAgain ==
    /\ pc = "generateEdges"
    /\ data' = generateEdges(data, width, height)
    /\ pc' = "generateEdgesAgain"
    /\ UNCHANGED <<rev, maskArgs, optionsArg, mask, width, height, options,
                   canvas, pixels, locals, sampled, scale>>

NextEdges ==
    \/ CallGenerateEdges
    \/ CallGenerateEdgesAgain

\* the mirror phase has ended with any grid of the shape; sampled keeps it
InitEdges ==
    /\ rev = "v2"
    /\ maskArgs = "used"
    /\ optionsArg = NoOptions
    /\ pc = "ifMirrorY"
    /\ mask = "unset"
    /\ \E s \in GridShapes :
           /\ width = s[1]
           /\ height = s[2]
           /\ data \in [0 .. s[1] * s[2] - 1 -> SampledCodes]
    /\ sampled = data
    /\ options = NoOptions
    /\ canvas = "unset"
    /\ pixels = <<>>
    /\ locals = "unset"
    /\ scale = 0

SpecEdges == InitEdges /\ [][NextEdges]_vars

\* C11: generateEdges is idempotent: for every grid of cells in {-1, 0, 1},
\* a second run of generateEdges on the result of the first run leaves
\* every cell unchanged.
C11_GenerateEdgesIdempotent ==
    [][(pc = "generateEdges" /\ pc' = "generateEdgesAgain") =>
           \A i \in DOMAIN data : data'[i] = data[i]]_vars

\* generateEdges has run twice on a grid in which its first run turned an
\* empty cell into a border and left another cell empty
C11_Witness ==
    /\ pc = "generateEdgesAgain"
    /\ \E i, j \in DOMAIN data :
           /\ sampled[i] = 0
           /\ data[i] = -1
           /\ data[j] = 0

(***************************************************************************)
(* The order of the calls of Sprite.prototype.init (v0.0.2).               *)
(***************************************************************************)
\* the step that ends the call named p was taken from the state in which
\* the call named q had ended
Follows(p, q) == pc' = p => pc = q

\* C12: in v0.0.2 the construction of a Sprite runs the grid phases in one
\* fixed order for every Mask: initData, applyMask, generateRandomSample,
\* mirrorX (only if mask.mirrorX), mirrorY (only if mask.mirrorY),
\* generateEdges, renderPixelData.  Each phase works on the grid the phase
\* before it left: mirrorY reads the grid mirrorX has completed,
\* generateEdges the grid the mirror phase has completed, and
\* renderPixelData the grid generateEdges has completed.
C12_PhaseOrderV2 ==
    [][rev = "v2" =>
          /\ Follows("initData", "initContext")
          /\ pc' = "initData" => data' = initData(data, width, height)
          /\ Follows("applyMask", "initData")
          /\ pc' = "applyMask" => data' = applyMask(data, width, mask)
          /\ Follows("generateRandomSample", "applyMask")
          /\ Follows("ifMirrorX", "generateRandomSample")
          /\ pc' = "ifMirrorX" =>
                 data' = IF mask.mirrorX THEN mirrorX(data, width, height)
                                         ELSE data
          /\ Follows("ifMirrorY", "ifMirrorX")
          /\ pc' = "ifMirrorY" =>
                 data' = IF mask.mirrorY THEN mirrorY(data, width, height)
                                         ELSE data
          /\ Follows("generateEdges", "ifMirrorY")
          /\ pc' = "generateEdges" => data' = generateEdges(data, width, height)
          /\ Follows("renderPixelData", "generateEdges")
          /\ pc' = "renderPixelData" => data' = data]_vars

\* a rendered v0.0.2 sprite mirrored in x and in y, whose authored corner
\* was drawn empty and turned into a border after it had been mirrored
C12_Witness ==
    /\ rev = "v2"
    /\ pc = "renderPixelData"
    /\ mask.mirrorX
    /\ mask.mirrorY
    /\ sampled[0] = 0
    /\ Cell(0, 0) = -1
    /\ Cell(width - 1, height - 1) = -1

(***************************************************************************)
(* The outcomes of generateRandomSample.                                   *)
(***************************************************************************)
\* the values the claim allows a cell holding val to end with
SampleOutcomes(val) ==
    IF val = 1 THEN {0, 1}
    ELSE IF val = 2 THEN {-1, 1}
    ELSE {val}

\* the grids in which every cell of d has, on its own, one of its outcomes
IndependentSamples(d) ==
    LET drawn   == {i \in DOMAIN d : Cardinality(SampleOutcomes(d[i])) > 1}
        choices == {c \in [drawn -> {-1, 0, 1}] :
                       \A i \in drawn : c[i] \in SampleOutcomes(d[i])}
    IN  {[i \in DOMAIN d |-> IF i \in drawn THEN c[i] ELSE d[i]] : c \in choices}

\* the grids the call of generateRandomSample can return in this state, one
\* for each way Math.random() can answer its calls
SampleResults ==
    {generateRandomSample(data, width, height, rnd) :
        rnd \in [DrawCells(data) -> RandomValues]}

\* C13: generateRandomSample maps each cell by its code alone: a cell
\* holding 1 ends as 0 or 1, a cell holding 2 ends as -1 or 1, a cell
\* holding -1 or 0 is left unchanged, and every combination of these
\* per-cell outcomes is a grid the call can return (the outcome of one
\* cell does not constrain another's).
C13_SampleOutcomesPerCell ==
    pc = "applyMask" => SampleResults = IndependentSamples(data)

\* generateRandomSample has returned for a Mask authored with the codes 1
\* and 2 side by side: the first cell was drawn empty, the second body
C13_Witness ==
    /\ pc = "generateRandomSample"
    /\ mask.width >= 2
    /\ MaskCode(0, 0) = 1
    /\ MaskCode(1, 0) = 2
    /\ Cell(0, 0) = 0
    /\ Cell(1, 0) = 1

(***************************************************************************)
(* The authored quadrant across the mirror phase.                          *)
(***************************************************************************)
\* the mirror phase of init has ended and generateEdges has not run yet
Mirrored == pc = "ifMirrorY"

\* C14: in both revisions, for every Mask and every combination of
\* mirrorX / mirrorY, each cell inside the top-left mask.width x mask.height
\* sub-rectangle holds, when the mirror phase ends, exactly the value it
\* held when generateRandomSample ended.
C14_AuthoredQuadrantKept ==
    Mirrored =>
        \A x \in 0 .. mask.width - 1, y \in 0 .. mask.height - 1 :
            Cell(x, y) = getData(sampled, width, x, y)

(***************************************************************************)
(* SpecResize: Sprite.prototype.resize(scale) called any number of times   *)
(* on a generated v0.0.2 Sprite, with positive integer scales.             *)
(***************************************************************************)
\* the scales of the model
Scales == 1 .. MaxScale

\* the image of a fresh w x h canvas after ctx.drawImage(src, 0, 0): src is
\* drawn at its own size from the top-left corner and clipped to w x h
drawImage(src, w, h) ==
    [i \in 0 .. 4 * w * h - 1 |->
        LET x == (i \div 4) % w
            y == (i \div 4) \div w
        IN  IF x < src.width /\ y < src.height
            THEN src.image[(y * src.width + x) * 4 + (i % 4)]
            ELSE 0]

\* ctx.getImageData on an image: a canvas whose backing store is
\* premultiplied gives a fully transparent pixel back as (0, 0, 0, 0); the
\* source does not decide which kind of canvas it runs on
getImageData(image, premultiplied) ==
    [i \in DOMAIN image |->
        IF premultiplied /\ image[4 * (i \div 4) + 3] = 0 THEN 0 ELSE image[i]]

\* the body of resize's loops for the scaled pixel number k
RECURSIVE resizeLoop(_, _, _, _, _, _, _)
resizeLoop(scaledPixels, origPixels, w, widthScaled, heightScaled, s, k) ==
    IF k >= widthScaled * heightScaled THEN scaledPixels
    ELSE LET x           == k % widthScaled
             y           == k \div widthScaled
             index       == ((y \div s) * w + (x \div s)) * 4
             indexScaled == (y * widthScaled + x) * 4
             copied      == [i \in DOMAIN scaledPixels |->
                               IF i \in indexScaled .. indexScaled + 3
                               THEN origPixels[index + (i - indexScaled)]
                               ELSE scaledPixels[i]]
         IN  IF Stored(copied)
             THEN resizeLoop(copied, origPixels, w, widthScaled, heightScaled,
                             s, k + 1)
             ELSE copied

\* the canvas c of a w x h sprite after sprite.resize(s)
resize(c, w, h, s, premultiplied) ==
    LET widthScaled  == w * s
        heightScaled == h * s
        origPixels   == getImageData(drawImage(c, w, h), premultiplied)
        scaledPixels == createImageData(widthScaled, heightScaled)
    IN  [width  |-> widthScaled,
         height |-> heightScaled,
         image  |-> resizeLoop(scaledPixels, origPixels, w, widthScaled,
                               heightScaled, s, 0)]

CallResize ==
    /\ rev = "v2"
    /\ pc \in {"renderPixelData", "resize"}
    /\ \E s \in Scales, premultiplied \in BOOLEAN :
           /\ canvas' = resize(canvas, width, height, s, premultiplied)
           /\ scale' = s
    /\ pc' = "resize"
    /\ UNCHANGED <<rev, maskArgs, optionsArg, mask, width, height, options,
                   data, pixels, locals, sampled>>

NextResize ==
    \/ Next
    \/ CallResize

InitResize ==
    /\ rev = "v2"
    /\ maskArgs \in RenderMaskArgs
    /\ optionsArg = [colored |-> FALSE]
    /\ Blank

SpecResize == InitResize /\ [][NextResize]_vars

\* the pixel (x, y) of the canvas, as its four bytes
CanvasPixel(x, y) ==
    [c \in 0 .. 3 |-> canvas.image[(y * canvas.width + x) * 4 + c]]

\* the pixel (x, y) of the sprite as renderPixelData rendered it
SpritePixel(x, y) == [c \in 0 .. 3 |-> Channel(x, y, c)]

\* two pixels are equal, or both are fully transparent
SamePixel(p, q) == p = q \/ (p[3] = 0 /\ q[3] = 0)

\* C15: after any sequence of one or more resize(scale) calls with positive
\* integer scales on a generated Sprite, the canvas left by the latest call
\* has width = sprite.width * scale and height = sprite.height * scale, and
\* each of its pixels (x, y) equals the originally rendered sprite pixel at
\* column floor(x / scale), row floor(y / scale).
C15_ResizeUpsamplesWholeSprite ==
    pc = "resize" =>
        /\ canvas.width = width * scale
        /\ canvas.height = height * scale
        /\ DOMAIN canvas.image = 0 .. 4 * canvas.width * canvas.height - 1
        /\ \A x \in 0 .. canvas.width - 1, y \in 0 .. canvas.height - 1 :
               SamePixel(CanvasPixel(x, y),
                         SpritePixel(x \div scale, y \div scale))
====
